---------------------------- MODULE Spec2Model ----------------------------
(***************************************************************************)
(* samtom4: conversion of SAM alignment records to blasr M4 records.       *)
(* The model follows main() of utils/SamToM4.cpp statement by statement:   *)
(* the set-up (reference rearrangement, the reference-count assertion, the *)
(* short-name map, the name index, the header line) and then one step per  *)
(* iteration of the record loop.  The library routines main() calls        *)
(* (RearrangeReferences, SAMAlignmentsToCandidates, ComputeAlignmentStats, *)
(* IntervalOutput) are not part of the file; they are modelled from their  *)
(* documented contracts.                                                   *)
(***************************************************************************)
EXTENDS Integers, Sequences, FiniteSets, TLC

VARIABLES
    pc,                  \* position of main(): see the actions
    useShortRefName,     \* flag -useShortRefName            (line 44)
    printHeader,         \* flag -header                     (line 42)
    outFileName,         \* "" means *outFilePtr = std::cout (lines 64-69)
    references,          \* titles of the FASTA sequences    (line 89)
    alignmentSetRefs,    \* alignmentSet.references[i].sequenceName (line 92)
    shortNames,          \* history: the header's short names after line 101
    shortRefNameToFull,  \* std::map short name -> full title (line 107)
    refNameToIndex,      \* std::map reference name -> index  (line 125)
    input,               \* history: the records GetNextAlignment returned
    convertedAlignments, \* the vector filled at line 182 (<<>> when out of scope)
    alignIndex,          \* line 135, incremented at line 214
    cout,                \* the lines written to std::cout
    outFile              \* the lines written to outFileStrm

vars == <<pc, useShortRefName, printHeader, outFileName, references,
          alignmentSetRefs, shortNames, shortRefNameToFull, refNameToIndex,
          input, convertedAlignments, alignIndex, cout, outFile>>

\* Number of records the input stream may hold.
MaxRecords == 2

-----------------------------------------------------------------------------
(* The inputs.                                                             *)

Titles == {"chrA full title", "chrB full title", "chrC full title"}

\* The first word of a FASTA title: the name the SAM header uses.
TitleShortName(t) ==
    CASE t = "chrA full title" -> "chrA"
      [] t = "chrB full title" -> "chrB"
      [] t = "chrC full title" -> "chrC"
      [] OTHER -> t

\* A CIGAR string is a sequence of <<length, operator>>.
Cigar_4M1I2D5M == <<<<4, "M">>, <<1, "I">>, <<2, "D">>, <<5, "M">>>>
Cigar_10M2P5M  == <<<<10, "M">>, <<2, "P">>, <<5, "M">>>>
Cigar_5M3N5M   == <<<<5, "M">>, <<3, "N">>, <<5, "M">>>>
Cigar_Star     == << >>

Cigars == {Cigar_4M1I2D5M, Cigar_10M2P5M, Cigar_5M3N5M, Cigar_Star}

RNames == {"*", "chrA", "chrX"}

\* flag (0x10 = reverse complement), AS, MAPQ and the xq tag of a record.
Payloads == { [flag |-> 16, as |-> -50, mapQV |-> 254, xq |-> 0],
              [flag |-> 0,  as |-> -20, mapQV |-> 30,  xq |-> 40] }

Records == { [rName |-> n, cigar |-> c, flag |-> p.flag, as |-> p.as,
              mapQV |-> p.mapQV, xq |-> p.xq] :
             n \in RNames, c \in Cigars, p \in Payloads }

\* The reference file and the SAM header a run may be started on.
Setups == { [fasta |-> <<"chrA full title", "chrB full title">>,
             header |-> <<"chrA", "chrB">>],
            [fasta |-> <<"chrA full title", "chrB full title">>,
             header |-> <<"chrB", "chrA">>],
            [fasta |-> <<"chrA full title", "chrB full title">>,
             header |-> <<"chrA", "chrA">>],
            [fasta |-> <<"chrA full title", "chrB full title", "chrC full title">>,
             header |-> <<"chrA", "chrB">>],
            [fasta |-> <<"chrA full title", "chrB full title">>,
             header |-> <<"chrA", "chrB", "chrC">>] }

\* What a read past the end of a vector may find in memory.
StrayNames == {"chrA", "?stray"}


-----------------------------------------------------------------------------
(* Library routines main() calls, from their documented contracts.         *)

RECURSIVE MatchedInOrder(_, _)
MatchedInOrder(header, fasta) ==
    IF fasta = << >> THEN << >>
    ELSE SelectSeq(header, LAMBDA n : n = TitleShortName(Head(fasta)))
         \o MatchedInOrder(header, Tail(fasta))

\* AlignmentSet::RearrangeReferences: the header's references in the order
\* of the FASTA file, those the FASTA file does not hold last.
RearrangeReferences(header, fasta) ==
    MatchedInOrder(header, fasta)
    \o SelectSeq(header, LAMBDA n :
                   \A i \in 1..Len(fasta) : n # TitleShortName(fasta[i]))

IsReverseComplement(flag) == (flag \div 16) % 2 = 1

RECURSIVE SumOps(_, _)
SumOps(cigar, ops) ==
    IF cigar = << >> THEN 0
    ELSE (IF Head(cigar)[2] \in ops THEN Head(cigar)[1] ELSE 0)
         + SumOps(Tail(cigar), ops)

\* Length of the query a CIGAR string aligns.
CigarQueryLength(cigar) == SumOps(cigar, {"M", "I"})

RECURSIVE SplitSegments(_, _, _)
SplitSegments(cigar, cur, acc) ==
    LET closed == IF cur = << >> THEN acc ELSE Append(acc, cur)
    IN  IF cigar = << >> THEN closed
        ELSE IF Head(cigar)[2] = "N"
             THEN SplitSegments(Tail(cigar), << >>, closed)
             ELSE SplitSegments(Tail(cigar), Append(cur, Head(cigar)), acc)

\* SAMAlignmentsToCandidates: one candidate per segment of the CIGAR string
\* (none for an empty CIGAR string).  With keepRefAsForward the target is
\* forward and the query carries the flag's strand; without it the query is
\* forward and the target carries the flag's strand.  A candidate's cigar
\* field stands for its aligned query and target sequences.
SAMAlignmentsToCandidates(sam, rName, keepRefAsForward) ==
    LET segs == SplitSegments(sam.cigar, << >>, << >>)
        rc   == IF IsReverseComplement(sam.flag) THEN 1 ELSE 0
    IN  [i \in 1..Len(segs) |->
           [tName   |-> rName,
            qStrand |-> IF keepRefAsForward THEN rc ELSE 0,
            tStrand |-> IF keepRefAsForward THEN 0 ELSE rc,
            qLength |-> CigarQueryLength(sam.cigar),
            cigar   |-> segs[i],
            score   |-> 0,
            mapQV   |-> 0,
            pctSimilarity |-> 0]]

\* ComputeAlignmentStats: counts the columns of the aligned pair and sets
\* the similarity and the score of the distance matrix.
ComputeAlignmentStats(alignment) ==
    LET nMatch == SumOps(alignment.cigar, {"M"})
        nIns   == SumOps(alignment.cigar, {"I"})
        nDel   == SumOps(alignment.cigar, {"D"})
        cols   == nMatch + nIns + nDel
    IN  [alignment EXCEPT
           !.pctSimilarity = IF cols = 0 THEN 0 ELSE (100 * nMatch) \div cols,
           !.score = nIns + nDel]

\* IntervalOutput::PrintFromSAM: one M4 line.  src is not printed: it is
\* the history of which input record the line was written for.
PrintFromSAM(alignment, src) ==
    [kind |-> "record", src |-> src,
     tName |-> alignment.tName, score |-> alignment.score,
     pctSimilarity |-> alignment.pctSimilarity,
     qStrand |-> alignment.qStrand, qLength |-> alignment.qLength,
     tStrand |-> alignment.tStrand, mapQV |-> alignment.mapQV]

\* AlignmentCandidate::FreeSubsequences.
FreeSubsequences(alignment) == [alignment EXCEPT !.cigar = << >>]

HeaderLine == [kind |-> "header"]
Warning(src, text) == [kind |-> "warning", src |-> src, text |-> text]
Error(src, text)   == [kind |-> "error", src |-> src, text |-> text]

\* What element 0 of an empty vector may hold.
StrayCandidates ==
    { [tName |-> "?stray", qStrand |-> s.strand, tStrand |-> s.strand,
       qLength |-> s.qLength, cigar |-> << >>, score |-> 0, mapQV |-> 0,
       pctSimilarity |-> 0] :
      s \in {[strand |-> 0, qLength |-> 0], [strand |-> 1, qLength |-> 77]} }


-----------------------------------------------------------------------------
(* main(): the set-up, lines 62-144.                                       *)

Init ==
    /\ pc = "rearrange"
    /\ useShortRefName \in BOOLEAN
    /\ printHeader \in BOOLEAN
    /\ outFileName \in {"", "out.m4"}
    /\ \E s \in Setups : references = s.fasta /\ alignmentSetRefs = s.header
    /\ shortNames = << >>
    /\ shortRefNameToFull = << >>
    /\ refNameToIndex = << >>
    /\ input = << >>
    /\ convertedAlignments = << >>
    /\ alignIndex = 0
    /\ cout = << >>
    /\ outFile = << >>

\* The lines written to *outFilePtr so far (lines 64-69).
OutStream == IF outFileName # "" THEN outFile ELSE cout

\* Writing lines to std::cout and lines to *outFilePtr, in this order.
Write(toCout, toOut) ==
    IF outFileName # ""
    THEN cout' = cout \o toCout /\ outFile' = outFile \o toOut
    ELSE cout' = cout \o toCout \o toOut /\ outFile' = outFile

\* Line 101.
Rearrange ==
    /\ pc = "rearrange"
    /\ alignmentSetRefs' = RearrangeReferences(alignmentSetRefs, references)
    /\ shortNames' = alignmentSetRefs'
    /\ pc' = "assert"
    /\ UNCHANGED <<useShortRefName, printHeader, outFileName, references,
                   shortRefNameToFull, refNameToIndex, input,
                   convertedAlignments, alignIndex, cout, outFile>>

\* The condition of the assertion in line 109.
SameReferenceCount == Len(references) = Len(alignmentSetRefs)

\* Line 109 in a build that keeps assertions: abort() when the counts differ.
AssertReferenceCount ==
    /\ pc = "assert"
    /\ pc' = IF SameReferenceCount THEN "map" ELSE "abort"
    /\ UNCHANGED <<useShortRefName, printHeader, outFileName, references,
                   alignmentSetRefs, shortNames, shortRefNameToFull,
                   refNameToIndex, input, convertedAlignments, alignIndex,
                   cout, outFile>>

\* Line 109 in a build with NDEBUG: assert() expands to nothing, and main()
\* goes on with counts that differ.
AssertCompiledOut ==
    /\ pc = "assert"
    /\ ~SameReferenceCount
    /\ pc' = "map"
    /\ UNCHANGED <<useShortRefName, printHeader, outFileName, references,
                   alignmentSetRefs, shortNames, shortRefNameToFull,
                   refNameToIndex, input, convertedAlignments, alignIndex,
                   cout, outFile>>

\* What alignmentSet.references[i], i < references.size(), may read: the
\* vector when it is long enough, and otherwise whatever lies behind it.
ReadableRefs(refs, fasta) ==
    IF Len(refs) >= Len(fasta) THEN {refs}
    ELSE { refs \o pad : pad \in [1..(Len(fasta) - Len(refs)) -> StrayNames] }

\* The test of line 114.
AlreadyMapped(map, shortRefName) == shortRefName \in DOMAIN map

\* The loop of lines 111-121 from index i on (i counts from 1): the index at
\* which it found a short name twice (0 when it did not) and the map it built.
RECURSIVE MapLoop(_, _, _, _)
MapLoop(i, refs, fasta, map) ==
    IF i > Len(fasta) THEN [dup |-> 0, map |-> map]
    ELSE IF AlreadyMapped(map, refs[i]) THEN [dup |-> i, map |-> map]
    ELSE MapLoop(i + 1, refs, fasta, (refs[i] :> fasta[i]) @@ map)

\* Line 120 for the indices below n: the sequence names become the titles.
Renamed(refs, fasta, n) ==
    [i \in 1..Len(refs) |-> IF i < n THEN fasta[i] ELSE refs[i]]

\* Lines 110-122.
BuildShortRefNameToFull ==
    /\ pc = "map"
    /\ IF useShortRefName
       THEN /\ pc' = "index"
            /\ UNCHANGED <<alignmentSetRefs, shortRefNameToFull, cout, outFile>>
       ELSE \E refs \in ReadableRefs(alignmentSetRefs, references) :
              LET r == MapLoop(1, refs, references, << >>)
              IN  IF r.dup # 0
                  THEN /\ Write(<<Error(0, "more than one reference")>>, << >>)
                       /\ shortRefNameToFull' = r.map
                       /\ alignmentSetRefs' = Renamed(refs, references, r.dup)
                       /\ pc' = "exit_failure"
                  ELSE /\ shortRefNameToFull' = r.map
                       /\ alignmentSetRefs' =
                             Renamed(refs, references, Len(references) + 1)
                       /\ pc' = "index"
                       /\ UNCHANGED <<cout, outFile>>
    /\ UNCHANGED <<useShortRefName, printHeader, outFileName, references,
                   shortNames, refNameToIndex, input, convertedAlignments,
                   alignIndex>>

\* The loop of lines 126-129: a later reference of the same name overwrites.
RECURSIVE IndexLoop(_, _, _, _)
IndexLoop(i, refs, fasta, map) ==
    IF i > Len(fasta) THEN map
    ELSE IndexLoop(i + 1, refs, fasta, (refs[i] :> (i - 1)) @@ map)

\* Lines 125-129.
BuildRefNameToIndex ==
    /\ pc = "index"
    /\ \E refs \in ReadableRefs(alignmentSetRefs, references) :
          refNameToIndex' = IndexLoop(1, refs, references, << >>)
    /\ pc' = "header"
    /\ UNCHANGED <<useShortRefName, printHeader, outFileName, references,
                   alignmentSetRefs, shortNames, shortRefNameToFull, input,
                   convertedAlignments, alignIndex, cout, outFile>>

\* alignmentSet.references[i] with i beyond the vector's end (lines 112 and
\* 127, reached only past a compiled-out assertion) may also end the
\* process.  Line 112 is reached only when no earlier index left at line 117.
ReferenceIndexOutOfRange ==
    /\ Len(references) > Len(alignmentSetRefs)
    /\ \/ /\ pc = "map"
          /\ ~useShortRefName
          /\ MapLoop(1, alignmentSetRefs,
                     SubSeq(references, 1, Len(alignmentSetRefs)), << >>).dup = 0
       \/ pc = "index"
    /\ pc' = "crash"
    /\ UNCHANGED <<useShortRefName, printHeader, outFileName, references,
                   alignmentSetRefs, shortNames, shortRefNameToFull,
                   refNameToIndex, input, convertedAlignments, alignIndex,
                   cout, outFile>>

\* Line 144.
PrintHeader ==
    /\ pc = "header"
    /\ Write(<< >>, IF printHeader THEN <<HeaderLine>> ELSE << >>)
    /\ pc' = "loop"
    /\ UNCHANGED <<useShortRefName, printHeader, outFileName, references,
                   alignmentSetRefs, shortNames, shortRefNameToFull,
                   refNameToIndex, input, convertedAlignments, alignIndex>>


-----------------------------------------------------------------------------
(* main(): the record loop, lines 150-215.  Each action is one iteration   *)
(* on the record r that GetNextAlignment returned.                         *)

\* Line 151.
IsUnmapped(sam) == sam.rName = "*"

\* A variant of NameFound that lets a padded record pass unresolved, as if
\* the test of line 167 came before the lookup of line 157.
NameFoundOrPadded(sam) ==
    \/ useShortRefName
    \/ sam.rName \in DOMAIN shortRefNameToFull
    \/ \E i \in 1..Len(sam.cigar) : sam.cigar[i][2] = "P"

\* Lines 155-158: the name passes when short names are used or the map has it.
NameFound(sam) == useShortRefName \/ sam.rName \in DOMAIN shortRefNameToFull

\* Line 163: samAlignment.rName after the conversion.
FullRefName(sam) ==
    IF useShortRefName THEN sam.rName ELSE shortRefNameToFull[sam.rName]

\* A variant of HasPadding that looks for the wrong character.
HasLowerCasePadding(cigar) == \E i \in 1..Len(cigar) : cigar[i][2] = "p"

\* Line 167: cigar.find('P') != npos.
HasPadding(cigar) == \E i \in 1..Len(cigar) : cigar[i][2] = "P"

\* Line 180.
keepRefAsForward == FALSE

\* Lines 182-183.
Converted(sam) ==
    SAMAlignmentsToCandidates(sam, FullRefName(sam), keepRefAsForward)

\* A variant of HasMultipleSegments that is off by one.
HasMoreThanTwoSegments(alignments) == Len(alignments) > 2

\* Line 185.
HasMultipleSegments(alignments) == Len(alignments) > 1

\* A variant of UseAlignerScore that keeps the computed score.
UseAlignerMapQVOnly(alignment, sam) == [alignment EXCEPT !.mapQV = sam.mapQV]

\* Lines 198-199.
UseAlignerScore(alignment, sam) ==
    [alignment EXCEPT !.score = sam.as, !.mapQV = sam.mapQV]

\* Line 208.
UseOriginalQueryLength(alignment, sam) ==
    IF sam.xq # 0 THEN [alignment EXCEPT !.qLength = sam.xq] ELSE alignment

\* Lines 194-208 on convertedAlignments[0].
Reconciled(alignment, sam) ==
    UseOriginalQueryLength(
        UseAlignerScore(ComputeAlignmentStats(alignment), sam), sam)

MoreInput == pc = "loop" /\ Len(input) < MaxRecords

\* Lines 151-153.
SkipUnmapped ==
    /\ MoreInput
    /\ \E r \in Records :
         /\ IsUnmapped(r)
         /\ input' = Append(input, r)
    /\ convertedAlignments' = << >>
    /\ UNCHANGED <<pc, useShortRefName, printHeader, outFileName, references,
                   alignmentSetRefs, shortNames, shortRefNameToFull,
                   refNameToIndex, alignIndex, cout, outFile>>

\* Lines 155-162.
ExitUnknownReference ==
    /\ MoreInput
    /\ \E r \in Records :
         /\ ~IsUnmapped(r)
         /\ ~NameFound(r)
         /\ input' = Append(input, r)
         /\ Write(<<Error(Len(input) + 1, "could not find reference")>>, << >>)
    /\ pc' = "exit_failure"
    /\ convertedAlignments' = << >>
    /\ UNCHANGED <<useShortRefName, printHeader, outFileName, references,
                   alignmentSetRefs, shortNames, shortRefNameToFull,
                   refNameToIndex, alignIndex>>

\* Lines 167-171.
SkipPadding ==
    /\ MoreInput
    /\ \E r \in Records :
         /\ ~IsUnmapped(r)
         /\ NameFound(r)
         /\ HasPadding(r.cigar)
         /\ input' = Append(input, r)
         /\ Write(<<Warning(Len(input) + 1, "P in cigar")>>, << >>)
    /\ convertedAlignments' = << >>
    /\ UNCHANGED <<pc, useShortRefName, printHeader, outFileName, references,
                   alignmentSetRefs, shortNames, shortRefNameToFull,
                   refNameToIndex, alignIndex>>

\* Lines 173-188.
SkipMultipleSegments ==
    /\ MoreInput
    /\ \E r \in Records :
         /\ ~IsUnmapped(r)
         /\ NameFound(r)
         /\ ~HasPadding(r.cigar)
         /\ HasMultipleSegments(Converted(r))
         /\ input' = Append(input, r)
         /\ convertedAlignments' = Converted(r)
         /\ Write(<<Warning(Len(input) + 1, "multiple segments")>>, << >>)
    /\ UNCHANGED <<pc, useShortRefName, printHeader, outFileName, references,
                   alignmentSetRefs, shortNames, shortRefNameToFull,
                   refNameToIndex, alignIndex>>

\* Lines 173-214 when convertedAlignments[0] exists.
ConvertAlignment ==
    /\ MoreInput
    /\ \E r \in Records :
         /\ ~IsUnmapped(r)
         /\ NameFound(r)
         /\ ~HasPadding(r.cigar)
         /\ ~HasMultipleSegments(Converted(r))
         /\ Len(Converted(r)) > 0
         /\ LET alignment == Reconciled(Converted(r)[1], r)
            IN  /\ Write(<< >>, <<PrintFromSAM(alignment, Len(input) + 1)>>)
                /\ convertedAlignments' = <<FreeSubsequences(alignment)>>
         /\ input' = Append(input, r)
    /\ alignIndex' = alignIndex + 1
    /\ UNCHANGED <<pc, useShortRefName, printHeader, outFileName, references,
                   alignmentSetRefs, shortNames, shortRefNameToFull,
                   refNameToIndex>>

\* Lines 185-214 when convertedAlignments is empty: nothing stops the loop
\* body, and convertedAlignments[0] is an element the vector does not have.
\* The access ends the process ...
ConvertOutOfRangeCrash ==
    /\ MoreInput
    /\ \E r \in Records :
         /\ ~IsUnmapped(r)
         /\ NameFound(r)
         /\ ~HasPadding(r.cigar)
         /\ ~HasMultipleSegments(Converted(r))
         /\ Len(Converted(r)) = 0
         /\ input' = Append(input, r)
    /\ convertedAlignments' = << >>
    /\ pc' = "crash"
    /\ UNCHANGED <<useShortRefName, printHeader, outFileName, references,
                   alignmentSetRefs, shortNames, shortRefNameToFull,
                   refNameToIndex, alignIndex, cout, outFile>>

\* ... or lines 194-214 run on whatever the vector's storage holds.
ConvertOutOfRangeStray ==
    /\ MoreInput
    /\ \E r \in Records, stray \in StrayCandidates :
         /\ ~IsUnmapped(r)
         /\ NameFound(r)
         /\ ~HasPadding(r.cigar)
         /\ ~HasMultipleSegments(Converted(r))
         /\ Len(Converted(r)) = 0
         /\ Write(<< >>, <<PrintFromSAM(Reconciled(stray, r), Len(input) + 1)>>)
         /\ input' = Append(input, r)
    /\ convertedAlignments' = << >>
    /\ alignIndex' = alignIndex + 1
    /\ UNCHANGED <<pc, useShortRefName, printHeader, outFileName, references,
                   alignmentSetRefs, shortNames, shortRefNameToFull,
                   refNameToIndex>>

\* Lines 150 and 217-220: GetNextAlignment returns false.
EndOfInput ==
    /\ pc = "loop"
    /\ pc' = "done"
    /\ convertedAlignments' = << >>
    /\ UNCHANGED <<useShortRefName, printHeader, outFileName, references,
                   alignmentSetRefs, shortNames, shortRefNameToFull,
                   refNameToIndex, input, alignIndex, cout, outFile>>

Next ==
    \/ Rearrange
    \/ AssertReferenceCount
    \/ AssertCompiledOut
    \/ BuildShortRefNameToFull
    \/ BuildRefNameToIndex
    \/ ReferenceIndexOutOfRange
    \/ PrintHeader
    \/ SkipUnmapped
    \/ ExitUnknownReference
    \/ SkipPadding
    \/ SkipMultipleSegments
    \/ ConvertAlignment
    \/ ConvertOutOfRangeCrash
    \/ ConvertOutOfRangeStray
    \/ EndOfInput

Spec == Init /\ [][Next]_vars


-----------------------------------------------------------------------------
(* Properties.                                                             *)

\* The M4 record lines of the output, and the lines about input record i.
RecordLines == SelectSeq(OutStream, LAMBDA l : l.kind = "record")
LinesFor(stream, kind, i) ==
    { k \in 1..Len(stream) : stream[k].kind = kind /\ stream[k].src = i }

NumSegments(cigar) == Len(SplitSegments(cigar, << >>, << >>))

\* The skip conditions as the specification lists them.
MeetsSkipCondition(sam) ==
    \/ sam.rName = "*"
    \/ \E i \in 1..Len(sam.cigar) : sam.cigar[i][2] = "P"
    \/ NumSegments(sam.cigar) > 1

RetainedIndices ==
    SelectSeq([i \in 1..Len(input) |-> i],
              LAMBDA i : ~MeetsSkipCondition(input[i]))

\* C1: when the run ends successfully, the records written are the input
\* records that meet no skip condition (reference name "*", 'P' in the
\* CIGAR string, more than one segment), each once and in input order, so
\* their number is the number of input records minus the skipped ones.
C1_RetainedRecordsWritten ==
    pc = "done" =>
        /\ Len(RecordLines) = Len(input)
              - Cardinality({i \in 1..Len(input) : MeetsSkipCondition(input[i])})
        /\ [k \in 1..Len(RecordLines) |-> RecordLines[k].src] = RetainedIndices
        /\ alignIndex = Len(RecordLines)

C1_Witness ==
    /\ pc = "done"
    /\ Len(input) >= 2
    /\ MeetsSkipCondition(input[1])
    /\ ~MeetsSkipCondition(input[2])
    /\ Len(RecordLines) = 1

\* C2: the candidate builder is called with keepRefAsForward set, so every
\* emitted record has a forward target strand, and a reverse query strand
\* exactly when the source record's reverse-complement flag is set.
C2_ReferenceKeptForward ==
    \A k \in 1..Len(RecordLines) :
        /\ keepRefAsForward
        /\ RecordLines[k].tStrand = 0
        /\ RecordLines[k].qStrand = 1
              <=> IsReverseComplement(input[RecordLines[k].src].flag)

\* C3: every emitted record carries the source record's AS as its score and
\* the source record's mapping quality as its mapQV, whatever the alignment
\* statistics computed.
C3_ScoreAndMapQVPassThrough ==
    \A k \in 1..Len(RecordLines) :
        /\ RecordLines[k].score = input[RecordLines[k].src].as
        /\ RecordLines[k].mapQV = input[RecordLines[k].src].mapQV

C3_Witness ==
    \E k \in 1..Len(RecordLines) :
        LET sam == input[RecordLines[k].src]
        IN  /\ sam.cigar = Cigar_4M1I2D5M
            /\ ComputeAlignmentStats([cigar |-> sam.cigar, score |-> 0,
                                      pctSimilarity |-> 0]).score = 3
            /\ RecordLines[k].score = -50
            /\ RecordLines[k].mapQV = 254

\* C4: every emitted record has the source record's xq as its qLength when
\* xq is not zero, and the query length of the CIGAR string otherwise.
C4_QueryLength ==
    \A k \in 1..Len(RecordLines) :
        LET sam == input[RecordLines[k].src]
        IN  RecordLines[k].qLength =
               IF sam.xq # 0 THEN sam.xq ELSE CigarQueryLength(sam.cigar)

C6_CountMismatchAborts ==
    (pc \notin {"rearrange", "assert"} /\ Len(references) # Len(shortNames)) =>
        /\ pc = "abort"
        /\ input = << >>
        /\ OutStream = << >>

\* C7: the record loop is reached with full names only when no two header
\* references share a short name, and then the map has one entry for each
\* header reference, bound to the title of the FASTA sequence at the same
\* position.
C7_MapBindsEveryHeaderReference ==
    (pc = "loop" /\ ~useShortRefName) =>
        /\ \A i, j \in 1..Len(shortNames) :
              shortNames[i] = shortNames[j] => i = j
        /\ Cardinality(DOMAIN shortRefNameToFull) = Len(shortNames)
        /\ \A i \in 1..Len(shortNames) :
              /\ i <= Len(references)
              /\ shortNames[i] \in DOMAIN shortRefNameToFull
              /\ shortRefNameToFull[shortNames[i]] = references[i]

\* The part of C8 about short names, common to both statements: the map is
\* never built, no record ends the run for its name, and the candidates are
\* built under the record's own reference name.
C8_ShortNamesPassThrough ==
    useShortRefName =>
        /\ shortRefNameToFull = << >>
        /\ ~(pc = "exit_failure" /\ input # << >>)
        /\ \A i \in 1..Len(input) : LinesFor(cout, "error", i) = {}
        /\ \A k \in 1..Len(convertedAlignments) :
              convertedAlignments[k].tName = input[Len(input)].rName

\* C8 as stated: with full names, a record whose reference name the map does
\* not have ends the run with failure, and no record is written for it or
\* after it; with short names the names pass through.
C8_UnknownNameAlwaysFatal ==
    /\ \A i \in 1..Len(input) :
          (~useShortRefName /\ input[i].rName \notin DOMAIN shortRefNameToFull) =>
              /\ pc = "exit_failure"
              /\ i = Len(input)
              /\ LinesFor(OutStream, "record", i) = {}
    /\ C8_ShortNamesPassThrough

\* C8 as amended: the same for a record whose reference name is not "*".
C8_UnknownMappedNameFatal ==
    /\ \A i \in 1..Len(input) :
          (/\ ~useShortRefName
           /\ input[i].rName # "*"
           /\ input[i].rName \notin DOMAIN shortRefNameToFull) =>
              /\ pc = "exit_failure"
              /\ i = Len(input)
              /\ LinesFor(OutStream, "record", i) = {}
              /\ Cardinality(LinesFor(cout, "error", i)) = 1
    /\ C8_ShortNamesPassThrough

C8_Witness ==
    /\ ~useShortRefName
    /\ pc = "exit_failure"
    /\ Len(input) = 2
    /\ input[2].rName = "chrX"
    /\ LinesFor(OutStream, "record", 1) # {}
    /\ LinesFor(OutStream, "record", 2) = {}

\* C9: the output stream, a file or standard output, holds at most one
\* header line, there exactly when the header flag is set and before every
\* record line, and otherwise record lines only: no warning and no error.
C9_OutputIsHeaderThenRecords ==
    /\ \A k \in 1..Len(OutStream) : OutStream[k].kind \in {"header", "record"}
    /\ \A k \in 1..Len(OutStream) :
          OutStream[k].kind = "header" => (k = 1 /\ printHeader)
    /\ (pc \in {"loop", "done"} /\ printHeader) =>
          (OutStream # << >> /\ OutStream[1].kind = "header")

\* C10: when the loop body takes convertedAlignments[0], the vector holds
\* exactly one candidate; a record with no candidate reaches neither the
\* element access nor the output.
C10_FirstCandidateExists ==
    /\ \A i \in 1..Len(input) :
          (/\ input[i].rName # "*"
           /\ NameFound(input[i])
           /\ ~HasPadding(input[i].cigar)
           /\ NumSegments(input[i].cigar) = 0) =>
              /\ LinesFor(OutStream, "record", i) = {}
              /\ ~(pc = "crash" /\ i = Len(input))
    /\ LinesFor(OutStream, "record", Len(input)) # {} =>
          Len(convertedAlignments) = 1

=============================================================================
